---- MODULE Spec2Model ----
(***************************************************************************)
(* Model of the DMN TCK test runner (dmntk.test.runner).                   *)
(*                                                                         *)
(* Conventions                                                             *)
(*   Option<T>   a sequence of length at most one: <<>> is None, <<x>> is  *)
(*               Some(x).                                                  *)
(*   String      where the program concatenates, joins or formats a string *)
(*               it is a sequence of tokens (the empty string is <<>>);    *)
(*               where it only stores and compares it, a TLA+ string.      *)
(*   Path        a directory is the sequence of its segments.              *)
(***************************************************************************)
EXTENDS Integers, Sequences, FiniteSets, TLC

None == <<>>

Some(x) == <<x>>

IsSome(o) == Len(o) > 0

Unwrap(o) == o[1]

(***************************************************************************)
(* Bounds of the model.                                                    *)
(***************************************************************************)
\* Number of tests (evaluation requests) of one run.
MaxTests == 2

\* Capacity of a report BufWriter, counted in report lines.
BufLines == 1

\* Longest components collection and longest list of the comparison inputs.
MaxItems == 2

(***************************************************************************)
(* dto.rs: data transfer objects and their equality.                       *)
(***************************************************************************)
RECURSIVE ValueDtoEq(_, _)

\* impl PartialEq for SimpleDto
SimpleDtoEq(lhs, rhs) ==
  /\ lhs.typ = rhs.typ
  /\ lhs.text = rhs.text
  /\ lhs.nil = rhs.nil

\* Option<ValueDto> == Option<ValueDto>
OptionValueDtoEq(lhs, rhs) ==
  /\ IsSome(lhs) = IsSome(rhs)
  /\ IsSome(lhs) => ValueDtoEq(Unwrap(lhs), Unwrap(rhs))

\* #[derive(PartialEq)] struct ComponentDto
ComponentDtoEq(lhs, rhs) ==
  /\ lhs.name = rhs.name
  /\ OptionValueDtoEq(lhs.value, rhs.value)
  /\ lhs.nil = rhs.nil

\* Vec<ComponentDto> == Vec<ComponentDto>
VecComponentDtoEq(lhs, rhs) ==
  /\ Len(lhs) = Len(rhs)
  /\ \A i \in 1..Len(lhs) : ComponentDtoEq(lhs[i], rhs[i])

\* Vec<ValueDto> == Vec<ValueDto>
VecValueDtoEq(lhs, rhs) ==
  /\ Len(lhs) = Len(rhs)
  /\ \A i \in 1..Len(lhs) : ValueDtoEq(lhs[i], rhs[i])

\* Faulty variant of ListDtoEq: the items of two nil lists are not compared.
ListDtoEq_NilSkipsItems(lhs, rhs) ==
  /\ lhs.nil = rhs.nil
  /\ ~lhs.nil => VecValueDtoEq(lhs.items, rhs.items)

\* #[derive(PartialEq)] struct ListDto
ListDtoEq(lhs, rhs) ==
  /\ VecValueDtoEq(lhs.items, rhs.items)
  /\ lhs.nil = rhs.nil

\* Faulty variant of ValueDtoEq: a branch is compared only when both sides have it.
ValueDtoEq_PresentBranchesOnly(lhs, rhs) ==
  /\ (IsSome(lhs.simple) /\ IsSome(rhs.simple))
       => SimpleDtoEq(Unwrap(lhs.simple), Unwrap(rhs.simple))
  /\ (IsSome(lhs.components) /\ IsSome(rhs.components))
       => VecComponentDtoEq(Unwrap(lhs.components), Unwrap(rhs.components))
  /\ (IsSome(lhs.list) /\ IsSome(rhs.list))
       => ListDtoEq(Unwrap(lhs.list), Unwrap(rhs.list))

\* #[derive(PartialEq)] struct ValueDto
ValueDtoEq(lhs, rhs) ==
  /\ IsSome(lhs.simple) = IsSome(rhs.simple)
  /\ IsSome(lhs.simple) => SimpleDtoEq(Unwrap(lhs.simple), Unwrap(rhs.simple))
  /\ IsSome(lhs.components) = IsSome(rhs.components)
  /\ IsSome(lhs.components)
       => VecComponentDtoEq(Unwrap(lhs.components), Unwrap(rhs.components))
  /\ IsSome(lhs.list) = IsSome(rhs.list)
  /\ IsSome(lhs.list) => ListDtoEq(Unwrap(lhs.list), Unwrap(rhs.list))

(***************************************************************************)
(* model.rs: values, and dto.rs: their conversion to data transfer objects.*)
(***************************************************************************)
\* enum Value
ValueSimple(simple) == [tag |-> "Simple", v |-> simple]

ValueComponents(components) == [tag |-> "Components", v |-> components]

ValueList(list) == [tag |-> "List", v |-> list]

\* ValueDto::default()
ValueDtoDefault == [simple |-> None, components |-> None, list |-> None]

RECURSIVE ValueDtoFrom(_)

\* impl From<&Simple> for SimpleDto
SimpleDtoFrom(simple) ==
  [typ |-> simple.typ, text |-> simple.text, nil |-> simple.nil]

\* impl From<&Component> for ComponentDto
ComponentDtoFrom(component) ==
  [name |-> component.name,
   value |-> IF IsSome(component.value)
             THEN Some(ValueDtoFrom(Unwrap(component.value)))
             ELSE None,
   nil |-> component.nil]

\* Faulty variant of ListDtoFrom: the nil flag is not carried over.
ListDtoFrom_DropsNil(list) ==
  [items |-> [i \in 1..Len(list.items) |-> ValueDtoFrom(list.items[i])],
   nil |-> FALSE]

\* impl From<&List> for ListDto
ListDtoFrom(list) ==
  [items |-> [i \in 1..Len(list.items) |-> ValueDtoFrom(list.items[i])],
   nil |-> list.nil]

\* impl From<&Value> for ValueDto
ValueDtoFrom(value) ==
  CASE value.tag = "Simple" ->
         [ValueDtoDefault EXCEPT !.simple = Some(SimpleDtoFrom(value.v))]
    [] value.tag = "Components" ->
         [ValueDtoDefault EXCEPT
            !.components = Some([i \in 1..Len(value.v) |-> ComponentDtoFrom(value.v[i])])]
    [] value.tag = "List" ->
         [ValueDtoDefault EXCEPT !.list = Some(ListDtoFrom(value.v))]

(***************************************************************************)
(* model.rs: parsing of a value node.  An XML node is the record of its    *)
(* children by tag name: `value` the first <value> child, `component` all  *)
(* <component> children in document order, `list` the first <list> child.  *)
(***************************************************************************)
\* Order of the component names (String::cmp on the names of the model).
NameOrder == <<"a", "b", "c">>

NameRank(name) == CHOOSE i \in 1..Len(NameOrder) : NameOrder[i] = name

\* Option<String>::cmp(a, b) <= Equal: None is least.
OptionNameLeq(a, b) ==
  \/ ~IsSome(a)
  \/ IsSome(a) /\ IsSome(b) /\ NameRank(Unwrap(a)) <= NameRank(Unwrap(b))

\* optional_nil_attribute
optional_nil_attribute(node) == node.nil = Some("true")

\* Faulty variant of parse_simple_value: a missing text is never replaced.
parse_simple_value_TextAsRead(node) ==
  IF IsSome(node.value)
  THEN LET value_node == Unwrap(node.value)
       IN  Some([typ |-> value_node.type,
                 text |-> value_node.text,
                 nil |-> optional_nil_attribute(value_node)])
  ELSE None

\* parse_simple_value
parse_simple_value(node) ==
  IF IsSome(node.value)
  THEN LET value_node == Unwrap(node.value)
           typ == value_node.type
           text == value_node.text
           nil == optional_nil_attribute(value_node)
       IN  Some(IF IsSome(typ) /\ ~IsSome(text) /\ ~nil
                THEN [typ |-> typ, text |-> Some(""), nil |-> nil]
                ELSE [typ |-> typ, text |-> text, nil |-> nil])
  ELSE None

\* Faulty variant of sort_by_name: the items stay in document order.
sort_by_name_DocumentOrder(items) == items

\* One step of the stable sort: item goes after every element not greater.
InsertByName(sorted, item) ==
  LET before == SelectSeq(sorted, LAMBDA c : OptionNameLeq(c.name, item.name))
      after == SelectSeq(sorted, LAMBDA c : ~OptionNameLeq(c.name, item.name))
  IN  before \o <<item>> \o after

RECURSIVE sort_by_name(_)

\* items.sort_by(|a, b| a.name.cmp(&b.name)): a stable sort
sort_by_name(items) ==
  IF items = <<>>
  THEN <<>>
  ELSE InsertByName(sort_by_name(SubSeq(items, 1, Len(items) - 1)), items[Len(items)])

RECURSIVE parse_value_type(_)

\* Faulty variant of parse_items: the first item without value ends the list.
RECURSIVE parse_items_StopsAtFailure(_)

parse_items_StopsAtFailure(item_nodes) ==
  IF item_nodes = <<>> \/ ~IsSome(parse_value_type(Head(item_nodes)))
  THEN <<>>
  ELSE parse_value_type(Head(item_nodes)) \o parse_items_StopsAtFailure(Tail(item_nodes))

\* The values of the nodes that parse to a value, in order.
RECURSIVE parse_items(_)

parse_items(item_nodes) ==
  IF item_nodes = <<>>
  THEN <<>>
  ELSE parse_value_type(Head(item_nodes)) \o parse_items(Tail(item_nodes))

\* parse_value_components
parse_value_components(node) ==
  LET items == [i \in 1..Len(node.component) |->
                  [name |-> node.component[i].name,
                   value |-> parse_value_type(node.component[i].children),
                   nil |-> optional_nil_attribute(node.component[i])]]
  IN  IF items # <<>> THEN Some(sort_by_name(items)) ELSE None

\* Faulty variant of ListDefault: the default list is not nil.
ListDefault_NotNil == [items |-> <<>>, nil |-> FALSE]

\* impl Default for List
ListDefault == [items |-> <<>>, nil |-> TRUE]

\* parse_value_list
parse_value_list(node) ==
  IF IsSome(node.list)
  THEN LET list_node == Unwrap(node.list)
       IN  IF optional_nil_attribute(list_node)
           THEN Some(ListDefault)
           ELSE Some([items |-> parse_items(list_node.item), nil |-> FALSE])
  ELSE None

\* Faulty variant of parse_value_type: the components are probed first.
parse_value_type_ComponentsFirst(node) ==
  IF IsSome(parse_value_components(node))
  THEN Some(ValueComponents(Unwrap(parse_value_components(node))))
  ELSE IF IsSome(parse_simple_value(node))
  THEN Some(ValueSimple(Unwrap(parse_simple_value(node))))
  ELSE IF IsSome(parse_value_list(node))
  THEN Some(ValueList(Unwrap(parse_value_list(node))))
  ELSE None

\* parse_value_type
parse_value_type(node) ==
  IF IsSome(parse_simple_value(node))
  THEN Some(ValueSimple(Unwrap(parse_simple_value(node))))
  ELSE IF IsSome(parse_value_components(node))
  THEN Some(ValueComponents(Unwrap(parse_value_components(node))))
  ELSE IF IsSome(parse_value_list(node))
  THEN Some(ValueList(Unwrap(parse_value_list(node))))
  ELSE None

\* parse_child_value_type: child is the named child node, if there is one
parse_child_value_type(child) ==
  IF IsSome(child) THEN parse_value_type(Unwrap(child)) ELSE None

(***************************************************************************)
(* context.rs: the testing context.                                        *)
(***************************************************************************)
\* Order of the tokens of directory names, file stems and test case ids
\* (byte order of the strings of the model).
TokenOrder == <<"001", "002", "d1", "t1", "tck">>

TokenRank(token) == CHOOSE n \in 1..Len(TokenOrder) : TokenOrder[n] = token

RECURSIVE StrLess(_, _)

\* String::cmp(a, b) == Less
StrLess(a, b) ==
  IF a = <<>> THEN b # <<>>
  ELSE IF b = <<>> THEN FALSE
  ELSE IF Head(a) = Head(b) THEN StrLess(Tail(a), Tail(b))
  ELSE TokenRank(Head(a)) < TokenRank(Head(b))

\* (String, String, String)::cmp(a, b) == Less
KeyLess(a, b) ==
  \/ StrLess(a[1], b[1])
  \/ a[1] = b[1] /\ StrLess(a[2], b[2])
  \/ a[1] = b[1] /\ a[2] = b[2] /\ StrLess(a[3], b[3])

RECURSIVE SortedKeys(_)

\* Iteration order of a BTreeSet of test case keys.
SortedKeys(keys) ==
  IF keys = {}
  THEN <<>>
  ELSE LET least == CHOOSE k \in keys : \A o \in keys \ {k} : KeyLess(k, o)
       IN  <<least>> \o SortedKeys(keys \ {least})

RECURSIVE Join(_, _)

\* [String]::join(separator)
Join(strings, separator) ==
  IF strings = <<>> THEN <<>>
  ELSE IF Len(strings) = 1 THEN strings[1]
  ELSE strings[1] \o <<separator>> \o Join(Tail(strings), separator)

\* impl fmt::Display for TestResult
TestResultDisplay(test_result) ==
  IF test_result = "Success" THEN "SUCCESS" ELSE "ERROR"

\* BufWriter::new(file)
BufWriterNew == [file |-> <<>>, buf |-> <<>>]

\* writeln!(writer, ...): a line that does not fit flushes the buffer first.
BufWrite(writer, line) ==
  IF Len(writer.buf) + 1 > BufLines
  THEN [file |-> writer.file \o writer.buf, buf |-> <<line>>]
  ELSE [writer EXCEPT !.buf = Append(@, line)]

RECURSIVE BufWriteAll(_, _)

BufWriteAll(writer, lines) ==
  IF lines = <<>> THEN writer
  ELSE BufWriteAll(BufWrite(writer, Head(lines)), Tail(lines))

\* Drop of a BufWriter (at the return of main): the buffer reaches the file.
BufWriterDrop(writer) == [file |-> writer.file \o writer.buf, buf |-> <<>>]

\* All lines written to a writer so far, whether they reached the file or not.
Written(writer) == writer.file \o writer.buf

\* Canonical path of the tests root directory (config.test_cases_dir_path).
RootDir == <<"tck">>

\* Context::new
ContextNew(stop_on_failure, root_dir) ==
  [model_rdnns |-> [f \in {} |-> <<>>],
   model_names |-> [f \in {} |-> <<>>],
   workspace_names |-> [f \in {} |-> <<>>],
   report_writer |-> BufWriterNew,
   tck_report_writer |-> BufWriterNew,
   success_count |-> 0,
   failure_count |-> 0,
   stop_on_failure |-> stop_on_failure,
   root_dir_path |-> root_dir,
   test_case_success |-> {},
   test_case_failure |-> [k \in {} |-> <<>>]]

\* dir_name: the parent of a file path
dir_name(name) == name.parent

\* file_stem: the file name without extension
file_stem(name) == name.stem

\* dir_name_stripped_prefix. root_dir_name is the root directory followed by
\* "/": full_name starts with it iff it holds the root's segments and more.
dir_name_stripped_prefix(full_name, root_dir_name) ==
  IF /\ Len(full_name) > Len(root_dir_name)
     /\ SubSeq(full_name, 1, Len(root_dir_name)) = root_dir_name
  THEN SubSeq(full_name, Len(root_dir_name) + 1, Len(full_name))
  ELSE full_name

\* The test case key that write_line builds.
TestCaseKey(c, test_file_name, test_case_id) ==
  <<dir_name_stripped_prefix(dir_name(test_file_name), c.root_dir_path),
    file_stem(test_file_name),
    test_case_id>>

\* Faulty variant of FailureEntry: a later remark replaces the earlier ones.
FailureEntry_Overwrites(test_case_failure, test_case_key, remarks) ==
  [k \in DOMAIN test_case_failure \cup {test_case_key} |->
     IF k = test_case_key THEN <<remarks>> ELSE test_case_failure[k]]

\* Faulty variant of FailureEntry: a key that has remarks keeps them as they
\* are, the new remark is dropped.
FailureEntry_KeepsFirst(test_case_failure, test_case_key, remarks) ==
  [k \in DOMAIN test_case_failure \cup {test_case_key} |->
     IF k \in DOMAIN test_case_failure THEN test_case_failure[k] ELSE <<remarks>>]

\* test_case_failure.entry(key).and_modify(push(remarks)).or_insert(vec![remarks])
FailureEntry(test_case_failure, test_case_key, remarks) ==
  [k \in DOMAIN test_case_failure \cup {test_case_key} |->
     IF k = test_case_key
     THEN IF k \in DOMAIN test_case_failure
          THEN Append(test_case_failure[k], remarks)
          ELSE <<remarks>>
     ELSE test_case_failure[k]]

\* Faulty variant of write_line: the test id takes the place of the test
\* case id in the key.
write_line_KeyedByTestId(run, test_file_name, test_case_id, test_id, test_result, remarks) ==
  LET c == run.ctx
      test_case_key == TestCaseKey(c, test_file_name, test_id)
      line == [directory |-> test_case_key[1],
               stem |-> test_case_key[2],
               id |-> test_id,
               result |-> TestResultDisplay(test_result),
               remarks |-> IF test_result = "Failure" THEN remarks ELSE <<>>]
      written == [c EXCEPT !.report_writer = BufWrite(@, line)]
      call == [key |-> test_case_key, id |-> test_id,
               result |-> test_result, remarks |-> remarks]
  IN  IF test_result = "Success"
      THEN [ctx |-> [written EXCEPT
                       !.success_count = @ + 1,
                       !.test_case_success = @ \cup {test_case_key}],
            exit_status |-> run.exit_status,
            recorded |-> Append(run.recorded, call)]
      ELSE [ctx |-> [written EXCEPT
                       !.failure_count = @ + 1,
                       !.test_case_failure = FailureEntry(@, test_case_key, remarks)],
            exit_status |-> IF c.stop_on_failure THEN Some(1) ELSE run.exit_status,
            recorded |-> Append(run.recorded, call)]

\* Context::write_line. run is the state of the process: the context, the
\* exit status (None while running) and the calls of write_line made so far.
write_line(run, test_file_name, test_case_id, test_id, test_result, remarks) ==
  LET c == run.ctx
      test_case_key == TestCaseKey(c, test_file_name, test_case_id)
      line == [directory |-> test_case_key[1],
               stem |-> test_case_key[2],
               id |-> test_id,
               result |-> TestResultDisplay(test_result),
               remarks |-> IF test_result = "Failure" THEN remarks ELSE <<>>]
      written == [c EXCEPT !.report_writer = BufWrite(@, line)]
      call == [key |-> test_case_key, id |-> test_id,
               result |-> test_result, remarks |-> remarks]
  IN  IF test_result = "Success"
      THEN [ctx |-> [written EXCEPT
                       !.success_count = @ + 1,
                       !.test_case_success = @ \cup {test_case_key}],
            exit_status |-> run.exit_status,
            recorded |-> Append(run.recorded, call)]
      ELSE [ctx |-> [written EXCEPT
                       !.failure_count = @ + 1,
                       !.test_case_failure = FailureEntry(@, test_case_key, remarks)],
            exit_status |-> IF c.stop_on_failure THEN Some(1) ELSE run.exit_status,
            recorded |-> Append(run.recorded, call)]

\* An f64 that is the quotient of two integers: `den` is 0 for a division
\* by zero (NaN or an infinity).
F64Div(num, den) == [num |-> num, den |-> den]

\* The f64 literal 0.0
F64Zero == [num |-> 0, den |-> 1]

\* Faulty variant of calc_perc: the total is not tested.
calc_perc_Unguarded(total, success, failure) ==
  <<F64Div(success * 100, total), F64Div(failure * 100, total)>>

\* Context::calc_perc
calc_perc(total, success, failure) ==
  IF total > 0
  THEN <<F64Div(success * 100, total), F64Div(failure * 100, total)>>
  ELSE <<F64Zero, F64Zero>>

\* Faulty variant of CaseSuccess: keys that also failed are kept.
CaseSuccess_NoRetain(test_case_success, test_case_failure) == test_case_success

\* success.retain(|item| !self.test_case_failure.contains_key(item))
CaseSuccess(test_case_success, test_case_failure) ==
  {item \in test_case_success : item \notin DOMAIN test_case_failure}

\* total.extend(self.test_case_failure.keys())
CaseTotal(test_case_success, test_case_failure) ==
  test_case_success \cup DOMAIN test_case_failure

\* Faulty variant of TckKeyLines: the ERROR line carries the last remark only.
TckKeyLines_LastRemark(key, success, test_case_failure) ==
  (IF key \in success
   THEN <<[directory |-> key[1], stem |-> key[2], id |-> key[3],
           result |-> TestResultDisplay("Success"), remarks |-> <<>>]>>
   ELSE <<>>)
  \o
  (IF key \in DOMAIN test_case_failure
   THEN <<[directory |-> key[1], stem |-> key[2], id |-> key[3],
           result |-> TestResultDisplay("Failure"),
           remarks |-> test_case_failure[key][Len(test_case_failure[key])]]>>
   ELSE <<>>)

\* The lines of the TCK report for one key.
TckKeyLines(key, success, test_case_failure) ==
  (IF key \in success
   THEN <<[directory |-> key[1], stem |-> key[2], id |-> key[3],
           result |-> TestResultDisplay("Success"), remarks |-> <<>>]>>
   ELSE <<>>)
  \o
  (IF key \in DOMAIN test_case_failure
   THEN <<[directory |-> key[1], stem |-> key[2], id |-> key[3],
           result |-> TestResultDisplay("Failure"),
           remarks |-> Join(test_case_failure[key], ",")]>>
   ELSE <<>>)

RECURSIVE TckLines(_, _, _)

\* for key in &total { ... }: the lines of the TCK report
TckLines(keys, success, test_case_failure) ==
  IF keys = <<>> THEN <<>>
  ELSE TckKeyLines(Head(keys), success, test_case_failure)
       \o TckLines(Tail(keys), success, test_case_failure)

\* Context::display_test_cases_report: the context after it, and the counts
\* it prints.
display_test_cases_report(c) ==
  LET total == CaseTotal(c.test_case_success, c.test_case_failure)
      success == CaseSuccess(c.test_case_success, c.test_case_failure)
  IN  [ctx |-> [c EXCEPT !.tck_report_writer =
                  BufWriteAll(@, TckLines(SortedKeys(total), success, c.test_case_failure))],
       printed |-> [total_count |-> Cardinality(total),
                    success_count |-> Cardinality(success),
                    failure_count |-> Cardinality(DOMAIN c.test_case_failure),
                    perc |-> calc_perc(Cardinality(total), Cardinality(success),
                                       Cardinality(DOMAIN c.test_case_failure))]]

RECURSIVE Split(_, _)

\* str::split(separator): the pieces between the separators, empty ones too.
Split(string, separator) ==
  IF string = <<>> THEN << <<>> >>
  ELSE IF Head(string) = separator
  THEN << <<>> >> \o Split(Tail(string), separator)
  ELSE LET rest == Split(Tail(string), separator)
       IN  << <<Head(string)>> \o Head(rest) >> \o Tail(rest)

RECURSIVE Reverse(_)

\* Vec::reverse
Reverse(items) ==
  IF items = <<>> THEN <<>> ELSE Reverse(Tail(items)) \o <<Head(items)>>

RECURSIVE TrimStart(_)

\* str::trim_start: leading white space is dropped
TrimStart(string) ==
  IF string # <<>> /\ Head(string) = " " THEN TrimStart(Tail(string)) ELSE string

\* str::trim
Trim(string) == Reverse(TrimStart(Reverse(TrimStart(string))))

\* Url::parse of a URL with a special scheme: the host runs up to the first
\* "/", the path is the rest ("/" when there is none), and a space of the
\* path is percent-encoded.
UrlParse(input) ==
  LET after_scheme == SubSeq(input, 2, Len(input))
      slashes == {n \in 1..Len(after_scheme) : after_scheme[n] = "/"}
      first == IF slashes = {} THEN Len(after_scheme) + 1
               ELSE CHOOSE n \in slashes : \A m \in slashes : n <= m
      path == SubSeq(after_scheme, first, Len(after_scheme))
  IN  [scheme |-> input[1],
       domain |-> SubSeq(after_scheme, 1, first - 1),
       path |-> IF path = <<>> THEN <<"/">>
                ELSE [n \in 1..Len(path) |-> IF path[n] = " " THEN "%20" ELSE path[n]]]

\* Url::path_segments: the path after its leading "/", split at "/"
path_segments(url) == Split(Tail(url.path), "/")

\* Faulty variant of to_rdnn: the domain labels keep their order.
to_rdnn_DomainInOrder(input) ==
  LET url == UrlParse(input)
      segments == path_segments(url)
      trimmed == [n \in 1..Len(segments) |-> Trim(segments[n])]
      path == SelectSeq(trimmed, LAMBDA segment : segment # <<>>)
      domain_segments == Split(url.domain, ".")
  IN  Join(domain_segments \o path, "/")

\* to_rdnn
to_rdnn(input) ==
  LET url == UrlParse(input)
      segments == path_segments(url)
      trimmed == [n \in 1..Len(segments) |-> Trim(segments[n])]
      path == SelectSeq(trimmed, LAMBDA segment : segment # <<>>)
      domain_segments == Split(url.domain, ".")
  IN  Join(Reverse(domain_segments) \o path, "/")

\* workspace_name: the directory of the file relative to the root directory,
\* its segments joined by "/"
workspace_name(parent_path, child_path) ==
  LET workspace_path == child_path.parent
      stripped == SubSeq(workspace_path, Len(parent_path) + 1, Len(workspace_path))
  IN  Join([n \in 1..Len(stripped) |-> <<stripped[n]>>], "/")

\* HashMap::insert: the value of the key is set, an earlier one is replaced.
MapInsert(map, key, value) ==
  [k \in DOMAIN map \cup {key} |-> IF k = key THEN value ELSE map[k]]

\* Context::process_model_definitions. file is the model file: its
\* directory, its file name and the name and namespace attributes of its
\* root element.
process_model_definitions(c, root_dir_path, file) ==
  [c EXCEPT
     !.model_names = MapInsert(@, file.name, file.model_name),
     !.model_rdnns = MapInsert(@, file.name, to_rdnn(file.namespace)),
     !.workspace_names = MapInsert(@, file.name, workspace_name(root_dir_path, file))]

\* Whether get_workspace_name, get_model_rdnn and get_model_name find the
\* file name (each panics when it does not).
HasModel(c, file_name) ==
  /\ file_name \in DOMAIN c.workspace_names
  /\ file_name \in DOMAIN c.model_rdnns
  /\ file_name \in DOMAIN c.model_names

(***************************************************************************)
(* main.rs: the run.                                                       *)
(***************************************************************************)
\* Faulty variant of ResultDtoToString: only the first error detail is kept.
ResultDtoToString_FirstDetail(result) ==
  IF IsSome(result.errors) /\ Len(Unwrap(result.errors)) > 0
  THEN Unwrap(result.errors)[1].detail
  ELSE <<>>

\* impl ToString for ResultDto: the error details joined
ResultDtoToString(result) ==
  IF IsSome(result.errors)
  THEN LET errors == Unwrap(result.errors)
       IN  Join([n \in 1..Len(errors) |-> errors[n].detail], ", ")
  ELSE <<>>

\* format!("{:?}", result), used for a result without data and without errors
ResultDtoDebug(result) == <<"ResultDto { data: None, errors: None }">>

\* if i > 0 { format!("{}:{}", test_case_id, i) } else { test_case_id }
TestId(test_case_id, index) ==
  IF index > 0 THEN test_case_id \o <<":", ToString(index)>> ELSE test_case_id

\* main: the percentages of the passed and of the failed tests
TestsPerc(total_count, success_count, failure_count) ==
  IF total_count > 0
  THEN <<F64Div(success_count * 100, total_count),
         F64Div(failure_count * 100, total_count)>>
  ELSE <<F64Zero, F64Zero>>

\* execute_tests: format!("{}{}/{}", workspace prefix, model_namespace, invocable_name)
InvocablePath(workspace, model_namespace, invocable_name) ==
  (IF workspace = <<>> THEN <<>> ELSE workspace \o <<"/">>)
  \o model_namespace \o <<"/">> \o invocable_name

\* Faulty variant of Passes: the values are not compared.
Passes_WithoutComparison(response, opt_expected) ==
  /\ response.send = "Ok"
  /\ response.json = "Ok"
  /\ IsSome(response.result.data)
  /\ IsSome(Unwrap(response.result.data).value)
  /\ IsSome(opt_expected)

\* Whether evaluate_test_case takes the branch `result_dto == expected_dto`.
Passes(response, opt_expected) ==
  /\ response.send = "Ok"
  /\ response.json = "Ok"
  /\ IsSome(response.result.data)
  /\ IsSome(Unwrap(response.result.data).value)
  /\ IsSome(opt_expected)
  /\ ValueDtoEq(Unwrap(Unwrap(response.result.data).value),
                ValueDtoFrom(Unwrap(opt_expected)))

\* Faulty variant of Outcomes: a test without expected value is not recorded.
Outcomes_DropsNoExpected(response, opt_expected) ==
  IF response.send = "Err" \/ response.json = "Err"
  THEN <<[test_result |-> "Failure", remarks |-> response.reason]>>
  ELSE IF ~IsSome(response.result.data)
  THEN <<[test_result |-> "Failure", remarks |-> ResultDtoToString(response.result)]>>
  ELSE IF ~IsSome(Unwrap(response.result.data).value)
  THEN <<[test_result |-> "Failure", remarks |-> <<"no actual value">>]>>
  ELSE IF ~IsSome(opt_expected)
  THEN <<>>
  ELSE IF Passes(response, opt_expected)
  THEN <<[test_result |-> "Success", remarks |-> <<"duration", " us">>]>>
  ELSE <<[test_result |-> "Failure", remarks |-> <<"result differs from expected">>]>>

\* evaluate_test_case: the calls of write_line on the path that the response
\* and the expected value select, in order.
Outcomes(response, opt_expected) ==
  IF response.send = "Err"
  THEN <<[test_result |-> "Failure", remarks |-> response.reason]>>
  ELSE IF response.json = "Err"
  THEN <<[test_result |-> "Failure", remarks |-> response.reason]>>
  ELSE IF IsSome(response.result.data)
  THEN IF IsSome(Unwrap(response.result.data).value)
       THEN IF IsSome(opt_expected)
            THEN IF Passes(response, opt_expected)
                 THEN <<[test_result |-> "Success", remarks |-> <<"duration", " us">>]>>
                 ELSE <<[test_result |-> "Failure",
                         remarks |-> <<"result differs from expected">>]>>
            ELSE <<[test_result |-> "Failure", remarks |-> <<"no expected value">>]>>
       ELSE <<[test_result |-> "Failure", remarks |-> <<"no actual value">>]>>
  ELSE IF IsSome(response.result.errors)
  THEN <<[test_result |-> "Failure", remarks |-> ResultDtoToString(response.result)]>>
  ELSE <<[test_result |-> "Failure", remarks |-> ResultDtoDebug(response.result)]>>

RECURSIVE WriteLines(_, _, _, _, _)

\* The calls of write_line of one evaluate_test_case; none follows an exit.
WriteLines(run, file_path, case_id, test_id, outcomes) ==
  IF outcomes = <<>> \/ IsSome(run.exit_status)
  THEN run
  ELSE WriteLines(write_line(run, file_path, case_id, test_id,
                             Head(outcomes).test_result, Head(outcomes).remarks),
                  file_path, case_id, test_id, Tail(outcomes))

\* evaluate_test_case, from the return of client.post(..).send()
evaluate_test_case(run, file_path, case_id, test_id, response, expected) ==
  WriteLines(run, file_path, case_id, test_id, Outcomes(response, expected))

(***************************************************************************)
(* The inputs of a run.                                                    *)
(***************************************************************************)
\* Test files found by search_files, in the iteration order of main.
TestFileOrder ==
  <<[parent |-> RootDir, stem |-> <<"t1">>],
    [parent |-> RootDir \o <<"d1">>, stem |-> <<"t1">>]>>

TestFiles == {TestFileOrder[n] : n \in 1..Len(TestFileOrder)}

\* The first of the files in the iteration order of main.
FirstFile(remaining) ==
  TestFileOrder[CHOOSE n \in 1..Len(TestFileOrder) :
                  /\ TestFileOrder[n] \in remaining
                  /\ \A m \in 1..(n - 1) : TestFileOrder[m] \notin remaining]

\* The id attribute of a test case.
TestCaseIds == {None, Some(<<"001">>)}

SimpleOk == [type |-> Some("xsd:string"), text |-> Some("OK"), nil |-> None]

NodeEmpty == [value |-> None, component |-> <<>>, list |-> None]

NodeSimpleOk == [NodeEmpty EXCEPT !.value = Some(SimpleOk)]

ComponentNode(name) == [name |-> Some(name), nil |-> None, children |-> NodeSimpleOk]

\* <component name="b"/> before <component name="a"/>
NodeComponentsBA ==
  [NodeEmpty EXCEPT !.component = <<ComponentNode("b"), ComponentNode("a")>>]

\* The <expected> child of a result node.
RunExpected == {None, Some(NodeSimpleOk), Some(NodeComponentsBA)}

DtoSimpleOk ==
  [ValueDtoDefault EXCEPT
     !.simple = Some([typ |-> Some("xsd:string"), text |-> Some("OK"), nil |-> FALSE])]

ComponentDtoOk(name) == [name |-> Some(name), value |-> Some(DtoSimpleOk), nil |-> FALSE]

DtoComponentsAB ==
  [ValueDtoDefault EXCEPT !.components = Some(<<ComponentDtoOk("a"), ComponentDtoOk("b")>>)]

DtoComponentsBA ==
  [ValueDtoDefault EXCEPT !.components = Some(<<ComponentDtoOk("b"), ComponentDtoOk("a")>>)]

\* The value of a response.
RunDtos == {DtoSimpleOk, DtoComponentsAB, DtoComponentsBA, ValueDtoDefault}

ErrorDto(detail) == [detail |-> <<detail>>]

\* The bodies of the responses that deserialize.
RunResults ==
  {[data |-> None, errors |-> e] :
     e \in {None, Some(<<>>), Some(<<ErrorDto("e1"), ErrorDto("e2")>>)}}
  \cup {[data |-> Some([value |-> v]), errors |-> None] :
          v \in {None} \cup {Some(d) : d \in RunDtos}}
  \cup {[data |-> Some([value |-> Some(DtoSimpleOk)]), errors |-> Some(<<ErrorDto("e1")>>)]}

\* What client.post(..).send() and response.json() return.
Responses ==
  {[send |-> "Err", json |-> "Err", reason |-> <<"error sending request">>,
    result |-> [data |-> None, errors |-> None]],
   [send |-> "Ok", json |-> "Err", reason |-> <<"error decoding response body">>,
    result |-> [data |-> None, errors |-> None]]}
  \cup {[send |-> "Ok", json |-> "Ok", reason |-> <<>>, result |-> r] : r \in RunResults}

\* Directories with model or test files, in the iteration order of main
\* (the order of the keys of the BTreeMap `files`).
DirOrder == <<RootDir, RootDir \o <<"d1">>>>

\* The namespace attribute of the model files.
NamespaceLoan == <<"https://", "dmntk", ".", "io", "/", "models", "/", "loan">>

\* The model file "m1.dmn" of the n-th directory.
ModelFile(n) ==
  [parent |-> DirOrder[n], name |-> "m1.dmn",
   model_name |-> <<"loan", ToString(n)>>, namespace |-> NamespaceLoan]

\* What search_files finds, by directory tree: the model files and the test
\* files. A test file is in the directory of its model file, in another
\* directory that comes later, or in a directory that comes earlier.
FileTrees ==
  {[dmn |-> {}, xml |-> {}],
   [dmn |-> {ModelFile(1), ModelFile(2)}, xml |-> {TestFileOrder[1], TestFileOrder[2]}],
   [dmn |-> {ModelFile(1)}, xml |-> {TestFileOrder[1]}],
   [dmn |-> {ModelFile(1)}, xml |-> {TestFileOrder[2]}],
   [dmn |-> {ModelFile(2)}, xml |-> {TestFileOrder[1], TestFileOrder[2]}]}

\* The modelName element of a test file.
FixtureModelNames == {None, Some("m1.dmn")}

(***************************************************************************)
(* The state of the process.                                               *)
(***************************************************************************)
VARIABLES
  ctx,           \* the Context
  exit_status,   \* None while the process runs, then its exit status
  recorded,      \* the calls of write_line made so far
  sent,          \* the evaluation requests sent so far
  printed,       \* the counts printed by display_test_cases_report
  main_printed,  \* the counts of tests printed by main
  pc,            \* position of main
  files_dmn,     \* model files main has not processed yet
  files,         \* test files main has not executed yet
  file_path,     \* execute_tests: the test file
  model,         \* execute_tests: what it read from the maps of the context
  test_case_id,  \* execute_tests: id of the test case of the loop
  index,         \* execute_tests: index of the result node of the loop
  opt_expected,  \* evaluate_test_case: the expected value
  response,      \* evaluate_test_case: what the request returned
  cmp_pc,        \* comparison of one value: position
  cmp_node,      \* comparison of one value: the <expected> node of the fixture
  cmp_dto,       \* comparison of one value: the value of the response
  cmp_expected,  \* comparison of one value: the parsed expected value
  cmp_equal,     \* comparison of one value: result of result_dto == expected_dto
  fn_pc,         \* call of one function: position
  fn_input,      \* call of one function: the function and its arguments
  fn_output      \* call of one function: what it returned

runVars ==
  <<ctx, exit_status, recorded, sent, printed, main_printed, pc, files_dmn, files,
    file_path, model, test_case_id, index, opt_expected, response>>

cmpVars == <<cmp_pc, cmp_node, cmp_dto, cmp_expected, cmp_equal>>

fnVars == <<fn_pc, fn_input, fn_output>>

vars == <<runVars, cmpVars, fnVars>>

Run == [ctx |-> ctx, exit_status |-> exit_status, recorded |-> recorded]

\* No value is compared on its own during a run.
CmpIdle ==
  /\ cmp_pc = "idle"
  /\ cmp_node = NodeEmpty
  /\ cmp_dto = ValueDtoDefault
  /\ cmp_expected = None
  /\ cmp_equal = None

\* No function is called on its own during a run.
FnIdle ==
  /\ fn_pc = "idle"
  /\ fn_input = None
  /\ fn_output = None

Init ==
  /\ CmpIdle
  /\ FnIdle
  /\ \E stop_on_failure \in BOOLEAN : ctx = ContextNew(stop_on_failure, RootDir)
  /\ exit_status = None
  /\ recorded = <<>>
  /\ sent = <<>>
  /\ printed = None
  /\ main_printed = None
  /\ pc = "main"
  /\ \E tree \in FileTrees :
       /\ files_dmn = tree.dmn
       /\ files = tree.xml
  /\ file_path = None
  /\ model = None
  /\ test_case_id = <<>>
  /\ index = 0
  /\ opt_expected = None
  /\ response = None

\* The directory the loop of main is in: the first one with a file left.
CurrentDir ==
  DirOrder[CHOOSE n \in 1..Len(DirOrder) :
             /\ \E f \in files_dmn \cup files : f.parent = DirOrder[n]
             /\ \A m \in 1..(n - 1) : \A f \in files_dmn \cup files : f.parent # DirOrder[m]]

\* A panic ends the process with status 101; whether the report writers are
\* dropped, and so flushed, depends on the panic strategy of the build.
Panic ==
  /\ exit_status' = Some(101)
  /\ \/ ctx' = ctx
     \/ ctx' = [ctx EXCEPT !.report_writer = BufWriterDrop(@),
                           !.tck_report_writer = BufWriterDrop(@)]

\* main: the next model file of the directory is processed.
ProcessModelDefinitions ==
  /\ exit_status = None
  /\ pc = "main"
  /\ \E file_dmn \in files_dmn :
       /\ file_dmn.parent = CurrentDir
       /\ ctx' = process_model_definitions(ctx, RootDir, file_dmn)
       /\ files_dmn' = files_dmn \ {file_dmn}
  /\ UNCHANGED <<cmpVars, fnVars>>
  /\ UNCHANGED <<exit_status, recorded, sent, printed, main_printed, pc, files,
                 file_path, model, test_case_id, index, opt_expected, response>>

\* main: the next test file; execute_tests up to its loop over the test
\* cases. It panics when the test file names no model or a model that is in
\* no map of the context.
ExecuteTests ==
  /\ exit_status = None
  /\ pc = "main"
  /\ files # {}
  /\ \A file_dmn \in files_dmn : file_dmn.parent # CurrentDir
  /\ file_path' = Some(FirstFile(files))
  /\ files' = files \ {FirstFile(files)}
  /\ \E model_name \in FixtureModelNames :
       IF IsSome(model_name) /\ HasModel(ctx, Unwrap(model_name))
       THEN /\ model' = Some([file_name |-> Unwrap(model_name),
                              workspace_name |-> ctx.workspace_names[Unwrap(model_name)],
                              model_namespace |-> ctx.model_rdnns[Unwrap(model_name)],
                              model_name |-> ctx.model_names[Unwrap(model_name)]])
            /\ pc' = "test_cases"
            /\ UNCHANGED <<ctx, exit_status>>
       ELSE /\ Panic
            /\ UNCHANGED <<model, pc>>
  /\ UNCHANGED <<cmpVars, fnVars>>
  /\ UNCHANGED <<recorded, sent, printed, main_printed, files_dmn, test_case_id,
                 index, opt_expected, response>>

\* execute_tests: the next test case of the file.
NextTestCase ==
  /\ exit_status = None
  /\ pc = "test_cases"
  /\ \E id \in TestCaseIds :
       test_case_id' = (IF IsSome(id) THEN Unwrap(id) ELSE <<>>)
  /\ index' = 0
  /\ pc' = "result_nodes"
  /\ UNCHANGED <<cmpVars, fnVars>>
  /\ UNCHANGED <<ctx, exit_status, recorded, sent, printed, main_printed, files_dmn,
                 files, file_path, model, opt_expected, response>>

\* execute_tests: no test case is left, it returns to main.
EndTestCases ==
  /\ exit_status = None
  /\ pc = "test_cases"
  /\ pc' = "main"
  /\ UNCHANGED <<cmpVars, fnVars>>
  /\ UNCHANGED <<ctx, exit_status, recorded, sent, printed, main_printed, files_dmn,
                 files, file_path, model, test_case_id, index, opt_expected, response>>

\* Faulty variant of SendRequest: the request of the next result node is
\* sent while the response to the previous one is awaited.
SendRequest_Overlapping ==
  /\ exit_status = None
  /\ pc \in {"result_nodes", "awaiting"}
  /\ Len(sent) < MaxTests
  /\ \E expected \in RunExpected : opt_expected' = parse_child_value_type(expected)
  /\ sent' = Append(sent, [file |-> Unwrap(file_path),
                           test_case_id |-> test_case_id,
                           index |-> index,
                           test_id |-> TestId(test_case_id, index),
                           invocable_path |->
                             InvocablePath(Unwrap(model).workspace_name,
                                           Unwrap(model).model_namespace,
                                           <<"invocable">>)])
  /\ pc' = "awaiting"
  /\ UNCHANGED <<cmpVars, fnVars>>
  /\ UNCHANGED <<ctx, exit_status, recorded, printed, main_printed, files_dmn, files,
                 file_path, model, test_case_id, index, response>>

\* execute_tests and evaluate_test_case: the next result node of the test
\* case; its request is sent.
SendRequest ==
  /\ exit_status = None
  /\ pc = "result_nodes"
  /\ Len(recorded) < MaxTests
  /\ \E expected \in RunExpected : opt_expected' = parse_child_value_type(expected)
  /\ sent' = Append(sent, [file |-> Unwrap(file_path),
                           test_case_id |-> test_case_id,
                           index |-> index,
                           test_id |-> TestId(test_case_id, index),
                           invocable_path |->
                             InvocablePath(Unwrap(model).workspace_name,
                                           Unwrap(model).model_namespace,
                                           <<"invocable">>)])
  /\ pc' = "awaiting"
  /\ UNCHANGED <<cmpVars, fnVars>>
  /\ UNCHANGED <<ctx, exit_status, recorded, printed, main_printed, files_dmn, files,
                 file_path, model, test_case_id, index, response>>

\* execute_tests: no result node is left in the test case. The bindings of
\* the loop body (test_case_id, i) end with it.
EndResultNodes ==
  /\ exit_status = None
  /\ pc = "result_nodes"
  /\ pc' = "test_cases"
  /\ test_case_id' = <<>>
  /\ index' = 0
  /\ UNCHANGED <<cmpVars, fnVars>>
  /\ UNCHANGED <<ctx, exit_status, recorded, sent, printed, main_printed, files_dmn,
                 files, file_path, model, opt_expected, response>>

\* evaluate_test_case: the request returns, the test is judged and recorded.
Respond ==
  /\ exit_status = None
  /\ pc = "awaiting"
  /\ \E r \in Responses :
       LET after == evaluate_test_case(Run, Unwrap(file_path), test_case_id,
                                       TestId(test_case_id, index), r, opt_expected)
       IN  /\ response' = Some(r)
           /\ ctx' = after.ctx
           /\ exit_status' = after.exit_status
           /\ recorded' = after.recorded
  /\ index' = index + 1
  /\ pc' = "result_nodes"
  /\ UNCHANGED <<cmpVars, fnVars>>
  /\ UNCHANGED <<sent, printed, main_printed, files_dmn, files, file_path, model,
                 test_case_id, opt_expected>>

\* Faulty variant of Finalize: the test cases report is written inside the
\* loop over the files, and the loop goes on.
Finalize_InsideLoop ==
  /\ exit_status = None
  /\ pc = "main"
  /\ LET report == display_test_cases_report(ctx)
     IN  /\ ctx' = report.ctx
         /\ printed' = Some(report.printed)
  /\ UNCHANGED <<cmpVars, fnVars>>
  /\ UNCHANGED <<exit_status, pc, recorded, sent, main_printed, files_dmn, files,
                 file_path, model, test_case_id, index, opt_expected, response>>

\* main: after the last file the counts of the tests are printed, the test
\* cases report is written, main returns and the context is dropped.
Finalize ==
  /\ exit_status = None
  /\ pc = "main"
  /\ files = {}
  /\ files_dmn = {}
  /\ main_printed' =
       Some([total_count |-> ctx.success_count + ctx.failure_count,
             success_count |-> ctx.success_count,
             failure_count |-> ctx.failure_count,
             perc |-> TestsPerc(ctx.success_count + ctx.failure_count,
                                ctx.success_count, ctx.failure_count)])
  /\ LET report == display_test_cases_report(ctx)
     IN  /\ ctx' = [report.ctx EXCEPT
                      !.report_writer = BufWriterDrop(@),
                      !.tck_report_writer = BufWriterDrop(@)]
         /\ printed' = Some(report.printed)
  /\ exit_status' = Some(0)
  /\ pc' = "done"
  /\ UNCHANGED <<cmpVars, fnVars>>
  /\ UNCHANGED <<recorded, sent, files_dmn, files, file_path, model, test_case_id,
                 index, opt_expected, response>>

Next ==
  \/ ProcessModelDefinitions
  \/ ExecuteTests
  \/ NextTestCase
  \/ EndTestCases
  \/ SendRequest
  \/ EndResultNodes
  \/ Respond
  \/ Finalize

Spec == Init /\ [][Next]_vars

(***************************************************************************)
(* The comparison of one value: an <expected> node of a fixture is parsed, *)
(* converted and compared with the value of a response, as execute_tests   *)
(* and evaluate_test_case do for every result node (specification SpecCmp).*)
(***************************************************************************)
\* The sequences over a set with lengths from lo to hi.
SeqsOf(set, lo, hi) == UNION {[1..n -> set] : n \in lo..hi}

SimpleNil == [type |-> None, text |-> None, nil |-> Some("true")]

NodeSimpleNil == [NodeEmpty EXCEPT !.value = Some(SimpleNil)]

ListNode(nil, items) == [nil |-> nil, item |-> items]

\* <value> children of a node: with and without xsi:type, text and xsi:nil.
CmpValueNodes ==
  {[type |-> t, text |-> x, nil |-> n] :
     t \in {None, Some("xsd:string")},
     x \in {None, Some("OK")},
     n \in {None, Some("true"), Some("false")}}

\* <component> children of a node.
CmpComponentNodes ==
  {[name |-> n, nil |-> None, children |-> ch] :
     n \in {None, Some("a"), Some("b")},
     ch \in {NodeSimpleOk, NodeEmpty, NodeComponentsBA}}

\* <item> children of a list.
CmpItemNodes == {NodeSimpleOk, NodeSimpleNil, NodeEmpty, NodeComponentsBA}

\* The <expected> nodes.
CmpNodes ==
  {NodeEmpty, NodeSimpleOk, NodeSimpleNil}
  \cup {[NodeEmpty EXCEPT !.value = Some(v)] : v \in CmpValueNodes}
  \cup {[NodeSimpleOk EXCEPT !.list = Some(ListNode(None, <<>>))]}
  \cup {[NodeSimpleOk EXCEPT !.component = <<ComponentNode("a")>>],
        [NodeComponentsBA EXCEPT !.list = Some(ListNode(None, <<>>))],
        [NodeComponentsBA EXCEPT !.list = Some(ListNode(None, <<>>)),
                                 !.value = Some(SimpleNil)]}
  \cup {[NodeEmpty EXCEPT !.component = cs] :
          cs \in SeqsOf(CmpComponentNodes, 1, MaxItems)}
  \cup {[NodeEmpty EXCEPT !.list = Some(ListNode(nil, items))] :
          nil \in {None, Some("true"), Some("false")},
          items \in SeqsOf(CmpItemNodes, 0, MaxItems)}

DtoSimpleNil ==
  [ValueDtoDefault EXCEPT !.simple = Some([typ |-> None, text |-> None, nil |-> TRUE])]

DtoList(items, nil) == [ValueDtoDefault EXCEPT !.list = Some([items |-> items, nil |-> nil])]

\* Components of the value of a response.
CmpComponentDtos ==
  {[name |-> n, value |-> v, nil |-> FALSE] :
     n \in {None, Some("a"), Some("b")}, v \in {None, Some(DtoSimpleOk)}}

\* Items of a list of the value of a response.
CmpItemDtos == {DtoSimpleOk, DtoSimpleNil}

\* The values of a response: whatever deserializes into a ValueDto.
CmpDtos ==
  {ValueDtoDefault, DtoSimpleOk, DtoSimpleNil}
  \cup {[DtoSimpleOk EXCEPT !.list = Some([items |-> <<>>, nil |-> FALSE])]}
  \cup {[ValueDtoDefault EXCEPT !.components = Some(cs)] :
          cs \in SeqsOf(CmpComponentDtos, 0, MaxItems)}
  \cup {DtoList(items, nil) :
          items \in SeqsOf(CmpItemDtos, 0, MaxItems), nil \in BOOLEAN}

\* No run is in progress while one value is compared.
RunIdle ==
  /\ ctx = ContextNew(FALSE, RootDir)
  /\ exit_status = None
  /\ recorded = <<>>
  /\ sent = <<>>
  /\ printed = None
  /\ main_printed = None
  /\ pc = "main"
  /\ files_dmn = {}
  /\ files = {}
  /\ file_path = None
  /\ model = None
  /\ test_case_id = <<>>
  /\ index = 0
  /\ opt_expected = None
  /\ response = None

CmpInit ==
  /\ RunIdle
  /\ FnIdle
  /\ cmp_pc = "parse"
  /\ cmp_node \in CmpNodes
  /\ cmp_dto \in CmpDtos
  /\ cmp_expected = None
  /\ cmp_equal = None

\* parse_result_nodes: expected: parse_child_value_type(result_node, "expected")
CmpParse ==
  /\ cmp_pc = "parse"
  /\ cmp_expected' = parse_child_value_type(Some(cmp_node))
  /\ cmp_pc' = "compare"
  /\ UNCHANGED <<cmp_node, cmp_dto, cmp_equal>>
  /\ UNCHANGED <<runVars, fnVars>>

\* evaluate_test_case: result_dto == ValueDto::from(expected)
CmpCompare ==
  /\ cmp_pc = "compare"
  /\ IsSome(cmp_expected)
  /\ cmp_equal' = Some(ValueDtoEq(cmp_dto, ValueDtoFrom(Unwrap(cmp_expected))))
  /\ cmp_pc' = "done"
  /\ UNCHANGED <<cmp_node, cmp_dto, cmp_expected>>
  /\ UNCHANGED <<runVars, fnVars>>

CmpNext ==
  \/ CmpParse
  \/ CmpCompare

SpecCmp == CmpInit /\ [][CmpNext]_vars

(***************************************************************************)
(* The call of one function: to_rdnn on a namespace URL, or the conversion *)
(* of two values to data transfer objects (specification SpecFn).          *)
(***************************************************************************)
\* Most labels of the domain of a namespace URL.
MaxLabels == 2

\* Most segments of the path of a namespace URL.
MaxSegments == 4

\* Labels of a domain.
UrlLabels == {<<"dmntk">>, <<"io">>}

\* Segments of a path as written in the namespace: names, the empty segment
\* of a doubled or trailing slash, and a blank.
UrlSegments == {<<"models">>, <<"loan">>, <<>>, <<" ">>}

\* The URL with the domain labels and the path segments.
NamespaceUrl(labels, segments) ==
  <<"https://">> \o Join(labels, ".")
  \o (IF segments = <<>> THEN <<>> ELSE <<"/">> \o Join(segments, "/"))

\* Arguments of to_rdnn.
FnUrls ==
  {[fn |-> "to_rdnn", labels |-> labels, segments |-> segments] :
     labels \in SeqsOf(UrlLabels, 1, MaxLabels),
     segments \in SeqsOf(UrlSegments, 0, MaxSegments)}

\* Components of a value.
FnComponents ==
  {[name |-> None, value |-> None, nil |-> TRUE],
   [name |-> Some("a"), value |-> None, nil |-> FALSE],
   [name |-> Some("a"),
    value |-> Some(ValueSimple([typ |-> Some("xsd:string"), text |-> Some("OK"),
                                nil |-> FALSE])),
    nil |-> FALSE],
   [name |-> None,
    value |-> Some(ValueList([items |-> <<>>, nil |-> TRUE])),
    nil |-> FALSE]}

\* Items of a list.
FnItems ==
  {ValueSimple([typ |-> Some("xsd:string"), text |-> Some("OK"), nil |-> FALSE]),
   ValueSimple([typ |-> None, text |-> None, nil |-> TRUE]),
   ValueComponents(<<>>),
   ValueList([items |-> <<>>, nil |-> TRUE])}

\* Values: whatever the enum Value can hold, parsed from a fixture or not.
FnValues ==
  {ValueSimple(simple) :
     simple \in {[typ |-> Some("xsd:string"), text |-> Some("OK"), nil |-> FALSE],
                 [typ |-> Some("xsd:string"), text |-> Some(""), nil |-> FALSE],
                 [typ |-> Some("xsd:string"), text |-> None, nil |-> FALSE],
                 [typ |-> None, text |-> None, nil |-> TRUE]}}
  \cup {ValueComponents(components) : components \in SeqsOf(FnComponents, 0, MaxItems)}
  \cup {ValueList([items |-> items, nil |-> nil]) :
          items \in SeqsOf(FnItems, 0, MaxItems), nil \in BOOLEAN}

\* No run is in progress and no value is compared while a function is called.
FnInit ==
  /\ RunIdle
  /\ CmpIdle
  /\ fn_pc = "call"
  /\ \/ \E input \in FnUrls : fn_input = Some(input)
     \/ \E a \in FnValues, b \in FnValues :
          fn_input = Some([fn |-> "ValueDto::from", a |-> a, b |-> b])
  /\ fn_output = None

\* process_model_definitions: to_rdnn(namespace)
CallToRdnn ==
  /\ fn_pc = "call"
  /\ Unwrap(fn_input).fn = "to_rdnn"
  /\ fn_output' = Some(to_rdnn(NamespaceUrl(Unwrap(fn_input).labels,
                                            Unwrap(fn_input).segments)))
  /\ fn_pc' = "done"
  /\ UNCHANGED fn_input
  /\ UNCHANGED <<runVars, cmpVars>>

\* ValueDto::from(value), for each of the two values
CallValueDtoFrom ==
  /\ fn_pc = "call"
  /\ Unwrap(fn_input).fn = "ValueDto::from"
  /\ fn_output' = Some([a |-> ValueDtoFrom(Unwrap(fn_input).a),
                        b |-> ValueDtoFrom(Unwrap(fn_input).b)])
  /\ fn_pc' = "done"
  /\ UNCHANGED fn_input
  /\ UNCHANGED <<runVars, cmpVars>>

FnNext ==
  \/ CallToRdnn
  \/ CallValueDtoFrom

SpecFn == FnInit /\ [][FnNext]_vars

(***************************************************************************)
(* Properties of the run (specification Spec).                             *)
(***************************************************************************)
\* Every test case key a run of the model can record under.
CaseKeys ==
  {TestCaseKey(ctx, f, IF IsSome(id) THEN Unwrap(id) ELSE <<>>) :
     f \in TestFiles, id \in TestCaseIds}

\* A call of write_line was made for the key with the result.
RecordedWith(key, test_result) ==
  \E n \in 1..Len(recorded) :
    recorded[n].key = key /\ recorded[n].result = test_result

\* The remarks of the failures recorded for the key, in recording order.
FailureRemarks(key) ==
  LET failures == SelectSeq(recorded, LAMBDA call :
                              call.key = key /\ call.result = "Failure")
  IN  [n \in 1..Len(failures) |-> failures[n].remarks]

\* The lines of a report that are about the key.
LinesOf(lines, key) ==
  SelectSeq(lines, LAMBDA l : <<l.directory, l.stem, l.id>> = key)

\* The keys with a line of the given result in the TCK report file.
TckKeysWith(result) ==
  {key \in CaseKeys :
     \E n \in 1..Len(ctx.tck_report_writer.file) :
       LET l == ctx.tck_report_writer.file[n]
       IN  <<l.directory, l.stem, l.id>> = key /\ l.result = result}

\* The line of the fine-grained report that a call of write_line writes.
LineOfCall(call) ==
  [directory |-> call.key[1], stem |-> call.key[2], id |-> call.id,
   result |-> IF call.result = "Success" THEN "SUCCESS" ELSE "ERROR",
   remarks |-> IF call.result = "Failure" THEN call.remarks ELSE <<>>]

Finalized == exit_status = Some(0)

\* C1: after any sequence of write_line calls, display_test_cases_report
\* counts a key as passed iff it is in the success set and is no key of the
\* failure map, that is iff a test of it succeeded and none failed; a key
\* without recorded test is not passed, not failed and not in the total.
C1_CaseVerdict ==
  Finalized =>
    /\ \A key \in CaseKeys :
         /\ key \in TckKeysWith("SUCCESS")
              <=> (key \in ctx.test_case_success
                   /\ key \notin DOMAIN ctx.test_case_failure)
         /\ key \in TckKeysWith("SUCCESS")
              <=> (RecordedWith(key, "Success") /\ ~RecordedWith(key, "Failure"))
         /\ (~RecordedWith(key, "Success") /\ ~RecordedWith(key, "Failure"))
              => /\ key \notin TckKeysWith("SUCCESS")
                 /\ key \notin TckKeysWith("ERROR")
    /\ Unwrap(printed).success_count = Cardinality(TckKeysWith("SUCCESS"))
    /\ Unwrap(printed).failure_count = Cardinality(TckKeysWith("ERROR"))
    /\ Unwrap(printed).total_count =
         Cardinality({key \in CaseKeys :
                        RecordedWith(key, "Success") \/ RecordedWith(key, "Failure")})

\* C1 witness: the report was written for a key with a success and a failure
\* while another key has no recorded test.
C1_Witness ==
  /\ Finalized
  /\ \E key \in CaseKeys : RecordedWith(key, "Success") /\ RecordedWith(key, "Failure")
  /\ \E key \in CaseKeys : ~RecordedWith(key, "Success") /\ ~RecordedWith(key, "Failure")

\* C2: display_test_cases_report writes exactly one line per key of the
\* success set or the failure map: SUCCESS with an empty remark for a passed
\* key, and for a key with a failure only an ERROR line whose remark is all
\* failure remarks of the key joined by ",".
C2_AggregatedLines ==
  Finalized =>
    /\ ctx.tck_report_writer.buf = <<>>
    /\ \A key \in CaseKeys :
         LinesOf(ctx.tck_report_writer.file, key) =
           IF RecordedWith(key, "Failure")
           THEN <<[directory |-> key[1], stem |-> key[2], id |-> key[3],
                   result |-> "ERROR",
                   remarks |-> Join(FailureRemarks(key), ",")]>>
           ELSE IF RecordedWith(key, "Success")
           THEN <<[directory |-> key[1], stem |-> key[2], id |-> key[3],
                   result |-> "SUCCESS", remarks |-> <<>>]>>
           ELSE <<>>
    /\ Len(ctx.tck_report_writer.file) =
         Cardinality(ctx.test_case_success \cup DOMAIN ctx.test_case_failure)

\* C2 witness: a key with one success and one failure has a single line, the
\* ERROR line with the one failure remark.
C2_Witness ==
  /\ Finalized
  /\ \E key \in CaseKeys :
       /\ RecordedWith(key, "Success")
       /\ Len(FailureRemarks(key)) = 1
       /\ Len(LinesOf(ctx.tck_report_writer.file, key)) = 1
       /\ LinesOf(ctx.tck_report_writer.file, key)[1].result = "ERROR"
       /\ LinesOf(ctx.tck_report_writer.file, key)[1].remarks = FailureRemarks(key)[1]

\* C2 witness of the joined remarks: a key with two failures.
C2_WitnessJoined ==
  /\ Finalized
  /\ \E key \in CaseKeys : Len(FailureRemarks(key)) = 2

\* The step is a call of write_line: the last entry of recorded' is its call.
RecordStep ==
  /\ Len(recorded') = Len(recorded) + 1
  /\ SubSeq(recorded', 1, Len(recorded)) = recorded

\* C3: each write_line call appends one line to the fine-grained report and
\* leaves the earlier lines alone, and adds one to exactly one counter; a
\* success inserts the key into the success set and leaves the failure map,
\* a failure appends the remark to the remarks of the key, keeping the
\* earlier ones in order, and leaves the success set.
C3_RecordFrame ==
  [][IF pc = "awaiting"
     THEN /\ RecordStep
          /\ LET call == recorded'[Len(recorded')]
                 old == ctx.test_case_failure
                 new == ctx'.test_case_failure
             IN  /\ Written(ctx'.report_writer)
                      = Append(Written(ctx.report_writer), LineOfCall(call))
                 /\ call.result = "Success" =>
                      /\ ctx'.success_count = ctx.success_count + 1
                      /\ ctx'.failure_count = ctx.failure_count
                      /\ ctx'.test_case_success = ctx.test_case_success \cup {call.key}
                      /\ new = old
                 /\ call.result = "Failure" =>
                      /\ ctx'.failure_count = ctx.failure_count + 1
                      /\ ctx'.success_count = ctx.success_count
                      /\ ctx'.test_case_success = ctx.test_case_success
                      /\ DOMAIN new = DOMAIN old \cup {call.key}
                      /\ \A key \in DOMAIN old \ {call.key} : new[key] = old[key]
                      /\ new[call.key] =
                           Append(IF call.key \in DOMAIN old THEN old[call.key] ELSE <<>>,
                                  call.remarks)
     ELSE /\ recorded' = recorded
          /\ Written(ctx'.report_writer) = Written(ctx.report_writer)
          /\ ctx'.success_count = ctx.success_count
          /\ ctx'.failure_count = ctx.failure_count
          /\ ctx'.test_case_success = ctx.test_case_success
          /\ ctx'.test_case_failure = ctx.test_case_failure]_vars

\* C3 witness: a second failure was recorded under a key that had a remark.
C3_Witness ==
  \E key \in DOMAIN ctx.test_case_failure :
    /\ Len(ctx.test_case_failure[key]) = 2
    /\ ctx.test_case_failure[key][1] # ctx.test_case_failure[key][2]
    /\ Len(Written(ctx.report_writer)) = 2

\* C4: once display_test_cases_report has run, no write_line is accepted (no
\* report line, counter, success or failure entry changes) and the report is
\* not written a second time.
C4_FinalizeTerminal ==
  [][IsSome(printed) => UNCHANGED <<ctx, recorded, printed, exit_status>>]_vars

\* C4 witness: the report was written after tests had been recorded.
C4_Witness ==
  /\ IsSome(printed)
  /\ Len(recorded) > 0
  /\ Len(ctx.tck_report_writer.file) > 0

\* C5: with stop_on_failure, at the exit that follows the first failure all
\* that was recorded, the failing test included, is in both report files.
C5_FailFastFlushed ==
  exit_status = Some(1) =>
    /\ recorded[Len(recorded)].result = "Failure"
    /\ ctx.report_writer.file = [n \in 1..Len(recorded) |-> LineOfCall(recorded[n])]
    /\ \A key \in CaseKeys :
         (RecordedWith(key, "Success") \/ RecordedWith(key, "Failure"))
           => Len(LinesOf(ctx.tck_report_writer.file, key)) = 1

\* C6: every executed test leads to exactly one write_line call on every
\* path of evaluate_test_case, and any outcome other than the response value
\* equalling the expected value is recorded as a failure with its remark.
C6_ExactlyOneRecord ==
  [][IF pc = "awaiting"
     THEN /\ RecordStep
          /\ Len(Written(ctx'.report_writer)) = Len(Written(ctx.report_writer)) + 1
          /\ LET call == recorded'[Len(recorded')]
                 r == Unwrap(response')
                 equal ==
                   /\ r.send = "Ok" /\ r.json = "Ok"
                   /\ IsSome(r.result.data)
                   /\ IsSome(Unwrap(r.result.data).value)
                   /\ IsSome(opt_expected)
                   /\ ValueDtoEq(Unwrap(Unwrap(r.result.data).value),
                                 ValueDtoFrom(Unwrap(opt_expected)))
             IN  ~equal =>
                   /\ call.result = "Failure"
                   /\ ctx'.failure_count = ctx.failure_count + 1
                   /\ call.key \in DOMAIN ctx'.test_case_failure
                   /\ ctx'.test_case_failure[call.key]
                        [Len(ctx'.test_case_failure[call.key])] = call.remarks
     ELSE recorded' = recorded]_vars

\* C6 witness: a test without expected value was recorded as a failure and
\* the run went on.
C6_Witness ==
  /\ Len(recorded) = 2
  /\ recorded[1].result = "Failure"
  /\ recorded[1].remarks = <<"no expected value">>
  /\ ctx.failure_count + ctx.success_count = 2

\* The value of a response, if it has one.
ResponseValue(r) ==
  IF r.send = "Ok" /\ r.json = "Ok" /\ IsSome(r.result.data)
  THEN Unwrap(r.result.data).value
  ELSE None

\* C7: a test is recorded as SUCCESS iff the response has data with a value,
\* the result node has an expected value and the value equals the DTO of the
\* expected value; one test whose expected Simple value equals the returned
\* value gives one SUCCESS line in each report.
C7_SuccessIffEqual ==
  /\ (IsSome(response) /\ pc # "awaiting") =>
       LET call == recorded[Len(recorded)]
           value == ResponseValue(Unwrap(response))
       IN  /\ call.result = "Success"
                <=> /\ IsSome(value)
                    /\ IsSome(opt_expected)
                    /\ ValueDtoEq(Unwrap(value), ValueDtoFrom(Unwrap(opt_expected)))
           /\ Written(ctx.report_writer)[Len(recorded)].result
                = (IF call.result = "Success" THEN "SUCCESS" ELSE "ERROR")
  /\ (/\ Finalized
      /\ Len(recorded) = 1
      /\ ResponseValue(Unwrap(response)) = Some(DtoSimpleOk)
      /\ opt_expected = parse_value_type(NodeSimpleOk)) =>
       LET key == recorded[1].key
           line == [directory |-> key[1], stem |-> key[2], id |-> key[3],
                    result |-> "SUCCESS", remarks |-> <<>>]
       IN  /\ ctx.report_writer.file = <<line>>
           /\ ctx.tck_report_writer.file = <<line>>

\* C7 witness: the run of one test case with one result node whose expected
\* Simple value is the returned value has ended.
C7_Witness ==
  /\ Finalized
  /\ Len(recorded) = 1
  /\ recorded[1].key[3] = <<"001">>
  /\ ResponseValue(Unwrap(response)) = Some(DtoSimpleOk)
  /\ opt_expected = parse_value_type(NodeSimpleOk)
  /\ Len(ctx.tck_report_writer.file) = 1

(***************************************************************************)
(* Properties of the comparison (specification SpecCmp).                   *)
(***************************************************************************)
Compared == cmp_pc = "done"

\* The DTO of the expected value that was compared.
ExpectedDto == ValueDtoFrom(Unwrap(cmp_expected))

\* The populated branches of a ValueDto.
Branches(dto) == {b \in {"simple", "components", "list"} : IsSome(dto[b])}

\* Both compared values are lists.
BothLists == Branches(cmp_dto) = {"list"} /\ Branches(ExpectedDto) = {"list"}

\* Both compared values are components collections.
BothComponents ==
  Branches(cmp_dto) = {"components"} /\ Branches(ExpectedDto) = {"components"}

\* Two components collections hold the same entries, in any order.
SameEntries(lhs, rhs) ==
  /\ Len(lhs) = Len(rhs)
  /\ \E p \in Permutations(1..Len(lhs)) :
       \A n \in 1..Len(lhs) : ComponentDtoEq(lhs[n], rhs[p[n]])

\* C8 as claimed: two lists are equal iff their nil flags match and, when
\* they are not nil, their items are pairwise equal in order; the items of
\* two nil lists play no part.
C8_Original_NilListsIgnoreItems ==
  (Compared /\ BothLists) =>
    LET result == Unwrap(cmp_dto.list)
        expected == Unwrap(ExpectedDto.list)
    IN  Unwrap(cmp_equal)
          <=> /\ result.nil = expected.nil
              /\ ~result.nil => VecValueDtoEq(result.items, expected.items)

\* C8 amended: two lists are equal iff their nil flags match and their items
\* are pairwise equal in order, whether the lists are nil or not.
C8_ListEquality ==
  (Compared /\ BothLists) =>
    LET result == Unwrap(cmp_dto.list)
        expected == Unwrap(ExpectedDto.list)
    IN  Unwrap(cmp_equal)
          <=> /\ result.nil = expected.nil
              /\ Len(result.items) = Len(expected.items)
              /\ \A n \in 1..Len(result.items) :
                   ValueDtoEq(result.items[n], expected.items[n])

\* C8 witness: two nil lists with different items were compared, and differ.
C8_Witness ==
  /\ Compared
  /\ BothLists
  /\ Unwrap(cmp_dto.list).nil
  /\ Unwrap(ExpectedDto.list).nil
  /\ Unwrap(cmp_dto.list).items # Unwrap(ExpectedDto.list).items
  /\ cmp_equal = Some(FALSE)

\* C8 witness of the order: lists with the same items in another order differ.
C8_WitnessOrder ==
  /\ Compared
  /\ BothLists
  /\ Len(Unwrap(cmp_dto.list).items) = 2
  /\ Len(Unwrap(ExpectedDto.list).items) = 2
  /\ Unwrap(cmp_dto.list).items[1] # Unwrap(cmp_dto.list).items[2]
  /\ Unwrap(cmp_dto.list).items[1] = Unwrap(ExpectedDto.list).items[2]
  /\ Unwrap(cmp_dto.list).items[2] = Unwrap(ExpectedDto.list).items[1]
  /\ cmp_equal = Some(FALSE)

\* The entries of a components collection have names, each a different one.
DistinctNames(components) ==
  \A m, n \in 1..Len(components) :
    /\ IsSome(components[m].name)
    /\ m # n => components[m].name # components[n].name

\* C9 as claimed: an expected and a computed components collection with the
\* same entries (here under different names) compare equal in whatever
\* order the computed entries came.
C9_ComponentsAnyOrder ==
  (Compared /\ BothComponents
   /\ DistinctNames(Unwrap(ExpectedDto.components))
   /\ SameEntries(Unwrap(cmp_dto.components), Unwrap(ExpectedDto.components)))
    => cmp_equal = Some(TRUE)

\* C10: values of different branches are never equal, whatever they hold.
C10_BranchesDiffer ==
  (Compared /\ Branches(cmp_dto) # Branches(ExpectedDto)) => cmp_equal = Some(FALSE)

\* C10 witness: a nil Simple was compared with a nil list without items, and
\* an empty components collection with a Simple.
C10_Witness ==
  /\ Compared
  /\ cmp_equal = Some(FALSE)
  /\ \/ /\ cmp_dto = DtoList(<<>>, TRUE)
        /\ ExpectedDto = DtoSimpleNil
     \/ /\ cmp_dto = DtoSimpleNil
        /\ ExpectedDto = DtoList(<<>>, TRUE)

(***************************************************************************)
(* Properties of the parser (specification SpecCmp).                       *)
(***************************************************************************)
\* The <expected> node has been parsed.
Parsed == cmp_pc # "parse"

\* Position of a component name in the ascending order, a missing name first.
NameKey(name) == IF IsSome(name) THEN NameRank(Unwrap(name)) ELSE 0

RECURSIVE SortedAtEveryDepth(_)

\* Every components collection of the value, nested ones included, is in
\* ascending order of name.
SortedAtEveryDepth(value) ==
  CASE value.tag = "Simple" -> TRUE
    [] value.tag = "Components" ->
         /\ \A n \in 1..(Len(value.v) - 1) :
              NameKey(value.v[n].name) <= NameKey(value.v[n + 1].name)
         /\ \A n \in 1..Len(value.v) :
              IsSome(value.v[n].value) => SortedAtEveryDepth(Unwrap(value.v[n].value))
    [] value.tag = "List" ->
         \A n \in 1..Len(value.v.items) : SortedAtEveryDepth(value.v.items[n])

\* C11: every parsed components collection, at every nesting depth, is in
\* ascending order of name, a missing name being least.
C11_ComponentsSorted ==
  (Parsed /\ IsSome(cmp_expected)) => SortedAtEveryDepth(Unwrap(cmp_expected))

\* C11 witness: components that come in descending order of name in the
\* document, the first of them holding components in descending order too,
\* were parsed.
C11_Witness ==
  /\ Parsed
  /\ Len(cmp_node.component) = 2
  /\ cmp_node.component[1].name = Some("b")
  /\ cmp_node.component[2].name = None
  /\ cmp_node.component[1].children = NodeComponentsBA
  /\ IsSome(cmp_expected)
  /\ Unwrap(cmp_expected).tag = "Components"
  /\ Unwrap(cmp_expected).v[1].name = None
  /\ Unwrap(Unwrap(cmp_expected).v[2].value).v[1].name = Some("a")

\* A node whose only child is a <list> with the nil attribute and the items.
OnlyList(nil, items) == [NodeEmpty EXCEPT !.list = Some(ListNode(nil, items))]

\* C12: <list/> without nil attribute parses to {nil: false, items: []},
\* <list xsi:nil="true"/> parses to {nil: true, items: []}, and the two
\* values are not equal for the comparison.
C12_NilListDistinct ==
  /\ (Parsed /\ cmp_node = OnlyList(None, <<>>)) =>
       cmp_expected = Some(ValueList([items |-> <<>>, nil |-> FALSE]))
  /\ (Parsed /\ cmp_node = OnlyList(Some("true"), <<>>)) =>
       cmp_expected = Some(ValueList([items |-> <<>>, nil |-> TRUE]))
  /\ (Compared /\ cmp_node = OnlyList(None, <<>>)
      /\ cmp_dto = DtoList(<<>>, TRUE)) => cmp_equal = Some(FALSE)
  /\ (Compared /\ cmp_node = OnlyList(Some("true"), <<>>)
      /\ cmp_dto = DtoList(<<>>, FALSE)) => cmp_equal = Some(FALSE)

\* C12 witness: the parsed nil list was compared with the DTO of the empty
\* list that is not nil.
C12_Witness ==
  /\ Compared
  /\ cmp_node = OnlyList(Some("true"), <<>>)
  /\ cmp_dto = ValueDtoFrom(Unwrap(parse_value_type(OnlyList(None, <<>>))))
  /\ cmp_equal = Some(FALSE)

\* C13: the first probe that yields a result determines the value: a node
\* with a <value> child is Simple whatever else it has, a node with
\* <component> children and no <value> child is Components, a node with
\* only a <list> child is a List, a node with none of them has no value, and
\* the DTO of a parsed value has exactly one branch.
C13_FirstProbeWins ==
  Parsed =>
    /\ IsSome(cmp_node.value) =>
         /\ IsSome(cmp_expected)
         /\ Unwrap(cmp_expected).tag = "Simple"
    /\ (~IsSome(cmp_node.value) /\ cmp_node.component # <<>>) =>
         /\ IsSome(cmp_expected)
         /\ Unwrap(cmp_expected).tag = "Components"
    /\ (~IsSome(cmp_node.value) /\ cmp_node.component = <<>> /\ IsSome(cmp_node.list)) =>
         /\ IsSome(cmp_expected)
         /\ Unwrap(cmp_expected).tag = "List"
    /\ (~IsSome(cmp_node.value) /\ cmp_node.component = <<>> /\ ~IsSome(cmp_node.list)) =>
         cmp_expected = None
    /\ IsSome(cmp_expected) => Cardinality(Branches(ExpectedDto)) = 1

\* C13 witness: a node with a <value>, <component> children and a <list>
\* was parsed to a Simple value.
C13_Witness ==
  /\ Parsed
  /\ IsSome(cmp_node.value)
  /\ cmp_node.component # <<>>
  /\ IsSome(cmp_node.list)
  /\ Unwrap(cmp_expected).tag = "Simple"

\* C13 witness of the second probe: a node with <component> children and a
\* <list> but no <value> was parsed to Components.
C13_WitnessComponents ==
  /\ Parsed
  /\ ~IsSome(cmp_node.value)
  /\ cmp_node.component # <<>>
  /\ IsSome(cmp_node.list)
  /\ Unwrap(cmp_expected).tag = "Components"

\* C14: the text of a parsed simple value is the empty string when the
\* <value> has a type, no text and is not nil, and the text as read in every
\* other case; the type is as read, and nil is true only for xsi:nil="true".
C14_SimpleValueText ==
  (Parsed /\ IsSome(cmp_node.value)) =>
    LET value_node == Unwrap(cmp_node.value)
        simple == Unwrap(cmp_expected).v
    IN  /\ simple.nil <=> value_node.nil = Some("true")
        /\ simple.typ = value_node.type
        /\ (IsSome(value_node.type) /\ ~IsSome(value_node.text)
            /\ value_node.nil # Some("true")) => simple.text = Some("")
        /\ ~(IsSome(value_node.type) /\ ~IsSome(value_node.text)
             /\ value_node.nil # Some("true")) => simple.text = value_node.text

\* C14 witness: a <value> with a type, without text and with xsi:nil="false"
\* was parsed: its text is the empty string and it is not nil.
C14_Witness ==
  /\ Parsed
  /\ cmp_node.value = Some([type |-> Some("xsd:string"), text |-> None,
                            nil |-> Some("false")])
  /\ Unwrap(cmp_expected).v.text = Some("")
  /\ ~Unwrap(cmp_expected).v.nil

\* C14 witness of the other cases: a nil <value> with a type and without
\* text was parsed, and its text is absent.
C14_WitnessAbsent ==
  /\ Parsed
  /\ cmp_node.value = Some([type |-> Some("xsd:string"), text |-> None,
                            nil |-> Some("true")])
  /\ Unwrap(cmp_expected).v.text = None
  /\ Unwrap(cmp_expected).v.nil

(***************************************************************************)
(* Properties of the identity maps, of the order of the run and of the     *)
(* percentages (specification Spec).                                       *)
(***************************************************************************)
\* The entries of the map before the step are the same after it.
EntriesKept(old, new) ==
  \A f \in DOMAIN old : f \in DOMAIN new /\ new[f] = old[f]

\* The step sends an evaluation request.
SendStep == pc # "awaiting" /\ pc' = "awaiting"

\* C15 as claimed: the three identity maps have the entry of the model file
\* a test file names before a request of the test file is sent, and no entry
\* of the maps changes once it is written.
C15_IdentityMapsWriteOnce ==
  [][/\ SendStep => HasModel(ctx, Unwrap(model).file_name)
     /\ EntriesKept(ctx.model_names, ctx'.model_names)
     /\ EntriesKept(ctx.model_rdnns, ctx'.model_rdnns)
     /\ EntriesKept(ctx.workspace_names, ctx'.workspace_names)]_vars

\* The part of C15 that the run keeps: a request is sent only for a test
\* file whose model file has its entries, and what execute_tests read from
\* the maps is what they hold while the tests of the file are executed.
C15_EntryBeforeExecution ==
  (pc \in {"test_cases", "result_nodes", "awaiting"} /\ exit_status = None) =>
    /\ IsSome(model)
    /\ HasModel(ctx, Unwrap(model).file_name)
    /\ Unwrap(model).workspace_name = ctx.workspace_names[Unwrap(model).file_name]
    /\ Unwrap(model).model_namespace = ctx.model_rdnns[Unwrap(model).file_name]
    /\ Unwrap(model).model_name = ctx.model_names[Unwrap(model).file_name]

\* Position of a test file in the iteration order of main.
FileRank(file) == CHOOSE n \in 1..Len(TestFileOrder) : TestFileOrder[n] = file

\* C16: a request is sent only when the outcome of every earlier request is
\* recorded, so at most one request is outstanding; the n-th line of the
\* fine-grained report is the line of the n-th request; and the requests
\* follow the loops of the run: test files in the order of main, the result
\* nodes of a test case one after the other.
C16_OneRequestAtATime ==
  /\ Len(sent) = Len(recorded) + (IF pc = "awaiting" THEN 1 ELSE 0)
  /\ Len(Written(ctx.report_writer)) = Len(recorded)
  /\ \A n \in 1..Len(recorded) :
       LET line == Written(ctx.report_writer)[n]
       IN  /\ line = LineOfCall(recorded[n])
           /\ line.directory = TestCaseKey(ctx, sent[n].file, sent[n].test_case_id)[1]
           /\ line.stem = file_stem(sent[n].file)
           /\ line.id = sent[n].test_id
  /\ \A n \in 1..(Len(sent) - 1) :
       /\ FileRank(sent[n].file) <= FileRank(sent[n + 1].file)
       /\ sent[n + 1].index > 0 =>
            /\ sent[n + 1].file = sent[n].file
            /\ sent[n + 1].test_case_id = sent[n].test_case_id
            /\ sent[n + 1].index = sent[n].index + 1

\* C16 witness: the request of the second result node of a test case is
\* outstanding, the outcome of the first one is recorded.
C16_Witness ==
  /\ pc = "awaiting"
  /\ Len(sent) = 2
  /\ Len(recorded) = 1
  /\ sent[2].index = 1
  /\ Len(Written(ctx.report_writer)) = 1

\* C16 witness of the order of the files: a test of each test file is
\* recorded.
C16_WitnessFiles ==
  /\ Len(recorded) = 2
  /\ sent[1].file = TestFileOrder[1]
  /\ sent[2].file = TestFileOrder[2]

\* C17 as claimed: a response value without simple, components and list is
\* no value: the test is recorded with "no actual value", the value is not
\* compared with the expected value.
C17_AbsentBranchesNoValue ==
  (/\ IsSome(response)
   /\ pc # "awaiting"
   /\ ResponseValue(Unwrap(response)) = Some(ValueDtoDefault)
   /\ IsSome(opt_expected)) =>
    recorded[Len(recorded)].remarks = <<"no actual value">>

\* The percentages of a printed table: no division by zero, 0.0 for a total
\* of zero, 100 * count / total otherwise.
PercOk(table) ==
  LET count == <<table.success_count, table.failure_count>>
  IN  \A n \in 1..2 :
        /\ table.perc[n].den # 0
        /\ table.total_count = 0 => table.perc[n].num = 0
        /\ table.total_count > 0 =>
             table.perc[n].num * table.total_count
               = 100 * count[n] * table.perc[n].den

\* C20: the percentages of the tests (main) and of the test cases
\* (calc_perc) are (0.0, 0.0) for a total of zero and 100 * count / total for
\* a positive total; nothing is divided by zero.
C20_Percentages ==
  Finalized =>
    /\ Unwrap(main_printed).total_count = Len(recorded)
    /\ Unwrap(main_printed).success_count + Unwrap(main_printed).failure_count
         = Unwrap(main_printed).total_count
    /\ PercOk(Unwrap(main_printed))
    /\ PercOk(Unwrap(printed))

\* C20 witness: the tables of a run without any test were printed.
C20_Witness ==
  /\ Finalized
  /\ Unwrap(main_printed).total_count = 0
  /\ Unwrap(printed).total_count = 0
  /\ Unwrap(main_printed).perc = <<F64Zero, F64Zero>>
  /\ Unwrap(printed).perc = <<F64Zero, F64Zero>>

\* C20 witness of a positive total: one test passed, one failed, in two
\* test cases.
C20_WitnessPositive ==
  /\ Finalized
  /\ Unwrap(main_printed).success_count = 1
  /\ Unwrap(main_printed).failure_count = 1
  /\ Unwrap(printed).total_count = 2
  /\ Unwrap(printed).perc[1] = F64Div(100, 2)

(***************************************************************************)
(* Properties of the functions (specification SpecFn).                     *)
(***************************************************************************)
Returned(fn) == fn_pc = "done" /\ Unwrap(fn_input).fn = fn

RECURSIVE OneBranchEverywhere(_)

\* The DTO and every DTO nested in it has exactly one of simple, components
\* and list.
OneBranchEverywhere(dto) ==
  /\ Cardinality(Branches(dto)) = 1
  /\ IsSome(dto.components) =>
       \A n \in 1..Len(Unwrap(dto.components)) :
         IsSome(Unwrap(dto.components)[n].value)
           => OneBranchEverywhere(Unwrap(Unwrap(dto.components)[n].value))
  /\ IsSome(dto.list) =>
       \A n \in 1..Len(Unwrap(dto.list).items) :
         OneBranchEverywhere(Unwrap(dto.list).items[n])

\* C18: ValueDto::from gives every Value a DTO with exactly one branch, at
\* every depth, and two different Values get DTOs that are not equal.
C18_ConversionInjective ==
  Returned("ValueDto::from") =>
    LET a == Unwrap(fn_input).a
        b == Unwrap(fn_input).b
        dto == Unwrap(fn_output)
    IN  /\ OneBranchEverywhere(dto.a)
        /\ OneBranchEverywhere(dto.b)
        /\ a # b => ~ValueDtoEq(dto.a, dto.b)
        /\ a = b => ValueDtoEq(dto.a, dto.b)

\* C18 witness: two lists with the same items, one nil and one not, were
\* converted.
C18_Witness ==
  /\ Returned("ValueDto::from")
  /\ Unwrap(fn_input).a.tag = "List"
  /\ Unwrap(fn_input).b.tag = "List"
  /\ Unwrap(fn_input).a.v.items = Unwrap(fn_input).b.v.items
  /\ Len(Unwrap(fn_input).a.v.items) = 2
  /\ Unwrap(fn_input).a.v.nil
  /\ ~Unwrap(fn_input).b.v.nil
  /\ ~ValueDtoEq(Unwrap(fn_output).a, Unwrap(fn_output).b)

\* A path segment as the parsed URL has it: a blank is percent-encoded.
AsParsed(segment) ==
  [n \in 1..Len(segment) |-> IF segment[n] = " " THEN "%20" ELSE segment[n]]

\* C19: the RDNN of a namespace URL is its domain labels in reversed order
\* followed by the non-empty segments of its path in their order, joined
\* with "/"; https://dmntk.io/models/loan gives io/dmntk/models/loan.
C19_Rdnn ==
  Returned("to_rdnn") =>
    LET labels == Unwrap(fn_input).labels
        segments == Unwrap(fn_input).segments
        parsed == [n \in 1..Len(segments) |-> AsParsed(segments[n])]
        kept == SelectSeq(parsed, LAMBDA segment : segment # <<>>)
        pieces == [n \in 1..Len(labels) |-> labels[Len(labels) + 1 - n]] \o kept
        rdnn == Unwrap(fn_output)
        slashes == {n \in 1..Len(rdnn) : rdnn[n] = "/"}
    IN  /\ rdnn = Join(pieces, "/")
        /\ Cardinality(slashes) = Len(pieces) - 1
        /\ \A n \in slashes : n > 1 /\ n < Len(rdnn) /\ (n + 1) \notin slashes
        /\ (labels = << <<"dmntk">>, <<"io">> >>
            /\ segments = << <<"models">>, <<"loan">> >>)
             => rdnn = <<"io", "/", "dmntk", "/", "models", "/", "loan">>

\* C19 witness: the RDNN of https://dmntk.io/models//loan/ is
\* io/dmntk/models/loan.
C19_Witness ==
  /\ Returned("to_rdnn")
  /\ Unwrap(fn_input).labels = << <<"dmntk">>, <<"io">> >>
  /\ Unwrap(fn_input).segments = << <<"models">>, <<>>, <<"loan">>, <<>> >>
  /\ Unwrap(fn_output) = <<"io", "/", "dmntk", "/", "models", "/", "loan">>

\* C19 witness of the example: the RDNN of https://dmntk.io/models/loan.
C19_WitnessExample ==
  /\ Returned("to_rdnn")
  /\ Unwrap(fn_input).labels = << <<"dmntk">>, <<"io">> >>
  /\ Unwrap(fn_input).segments = << <<"models">>, <<"loan">> >>
  /\ Unwrap(fn_output) = <<"io", "/", "dmntk", "/", "models", "/", "loan">>

(***************************************************************************)
(* Properties of the run, continued (specification Spec).                  *)
(***************************************************************************)
\* The last response of the run and the call of write_line it led to.
LastResponse == Unwrap(response)

LastCall == recorded[Len(recorded)]

Judged == IsSome(response) /\ pc # "awaiting"

\* The details of the errors of a result, in order.
ErrorDetails(result) ==
  [n \in 1..Len(Unwrap(result.errors)) |-> Unwrap(result.errors)[n].detail]

\* C21: a response without data and with a non-empty errors list is recorded
\* as a failure whose remark is the error details joined by ", "; a response
\* without data and without errors is recorded as a failure whose remark is
\* the debug form of the result (unexpected shape); an error of the transport
\* or of the deserialization is recorded as a failure whose remark is the
\* description of the error; when data is present the record is determined
\* by the value and the expected value alone, whatever the errors field holds.
C21_ResponseClassification ==
  Judged =>
    LET r == LastResponse
        call == LastCall
        ok == r.send = "Ok" /\ r.json = "Ok"
    IN  /\ ~ok =>
             /\ call.result = "Failure"
             /\ call.remarks = r.reason
        /\ (ok /\ ~IsSome(r.result.data) /\ IsSome(r.result.errors)) =>
             /\ call.result = "Failure"
             /\ call.remarks = Join(ErrorDetails(r.result), ", ")
        /\ (ok /\ ~IsSome(r.result.data) /\ ~IsSome(r.result.errors)) =>
             /\ call.result = "Failure"
             /\ call.remarks = ResultDtoDebug(r.result)
        /\ (ok /\ IsSome(r.result.data)) =>
             LET value == Unwrap(r.result.data).value
             IN  <<call.result, call.remarks>> =
                   IF ~IsSome(value)
                   THEN <<"Failure", <<"no actual value">>>>
                   ELSE IF ~IsSome(opt_expected)
                   THEN <<"Failure", <<"no expected value">>>>
                   ELSE IF ValueDtoEq(Unwrap(value), ValueDtoFrom(Unwrap(opt_expected)))
                   THEN <<"Success", <<"duration", " us">>>>
                   ELSE <<"Failure", <<"result differs from expected">>>>

\* C21 witness: a response without data and with two errors was recorded with
\* the two details joined.
C21_Witness ==
  /\ Judged
  /\ ~IsSome(LastResponse.result.data)
  /\ IsSome(LastResponse.result.errors)
  /\ Len(Unwrap(LastResponse.result.errors)) = 2
  /\ LastCall.result = "Failure"
  /\ LastCall.remarks = <<"e1", ", ", "e2">>

\* C21 witness of the other classes: data with errors recorded as a success,
\* a response without data and errors, and a transport error.
C21_WitnessDataAndErrors ==
  /\ Judged
  /\ IsSome(LastResponse.result.data)
  /\ IsSome(LastResponse.result.errors)
  /\ LastCall.result = "Success"

C21_WitnessUnexpectedShape ==
  /\ Judged
  /\ LastResponse.json = "Ok"
  /\ LastResponse.result = [data |-> None, errors |-> None]
  /\ LastCall.remarks = ResultDtoDebug(LastResponse.result)

C21_WitnessTransport ==
  /\ Judged
  /\ LastResponse.send = "Err"
  /\ LastCall.remarks = <<"error sending request">>

\* C21, the case outside the claim: an empty errors list without data is
\* recorded with an empty remark.
C21_WitnessEmptyErrors ==
  /\ Judged
  /\ LastResponse.json = "Ok"
  /\ LastResponse.result = [data |-> None, errors |-> Some(<<>>)]
  /\ LastCall.result = "Failure"
  /\ LastCall.remarks = <<>>

(***************************************************************************)
(* Properties of the parser, continued (specification SpecCmp).            *)
(***************************************************************************)
\* The <expected> node has a <list> child and neither <value> nor <component>
\* children, so that its value is the parsed list.
ListParsed ==
  /\ Parsed
  /\ ~IsSome(cmp_node.value)
  /\ cmp_node.component = <<>>
  /\ IsSome(cmp_node.list)

\* The <item> children that parse to a value, in document order.
ItemsWithValue(list_node) ==
  SelectSeq(list_node.item, LAMBDA item : IsSome(parse_value_type(item)))

\* C22: a <list> with nil "true" parses to {nil: true, items: []} whatever
\* <item> children it has; any other <list> parses to nil false with exactly
\* the values of the <item> children that parse to a value, in document
\* order, the children without value being skipped.
C22_ListParsing ==
  ListParsed =>
    LET list_node == Unwrap(cmp_node.list)
        kept == ItemsWithValue(list_node)
    IN  /\ IsSome(cmp_expected)
        /\ Unwrap(cmp_expected).tag = "List"
        /\ list_node.nil = Some("true") =>
             Unwrap(cmp_expected).v = [items |-> <<>>, nil |-> TRUE]
        /\ list_node.nil # Some("true") =>
             /\ ~Unwrap(cmp_expected).v.nil
             /\ Unwrap(cmp_expected).v.items =
                  [n \in 1..Len(kept) |-> Unwrap(parse_value_type(kept[n]))]

\* C22 witness: a list whose first item has no value and whose second item
\* has one was parsed to the one value.
C22_Witness ==
  /\ ListParsed
  /\ Unwrap(cmp_node.list).nil # Some("true")
  /\ Len(Unwrap(cmp_node.list).item) = 2
  /\ Unwrap(cmp_node.list).item[1] = NodeEmpty
  /\ Unwrap(cmp_node.list).item[2] = NodeSimpleOk
  /\ Unwrap(cmp_expected).v.items = <<Unwrap(parse_value_type(NodeSimpleOk))>>

\* C22 witness of the nil list: a list with nil "true" and two items that
\* have a value was parsed to the list without items.
C22_WitnessNil ==
  /\ ListParsed
  /\ Unwrap(cmp_node.list).nil = Some("true")
  /\ Len(ItemsWithValue(Unwrap(cmp_node.list))) = 2
  /\ Unwrap(cmp_expected).v = [items |-> <<>>, nil |-> TRUE]

\* C22 witness of the order: two different items with a value were parsed
\* to their values in document order.
C22_WitnessOrder ==
  /\ ListParsed
  /\ Unwrap(cmp_node.list).nil = Some("false")
  /\ Unwrap(cmp_node.list).item = <<NodeComponentsBA, NodeSimpleNil>>
  /\ Len(Unwrap(cmp_expected).v.items) = 2
  /\ Unwrap(cmp_expected).v.items[1].tag = "Components"
  /\ Unwrap(cmp_expected).v.items[2].tag = "Simple"

(***************************************************************************)
(* Properties of the aggregation context (specification Spec).             *)
(***************************************************************************)
RECURSIVE RemarkCount(_, _)

\* The number of remarks the failure map holds under the keys.
RemarkCount(test_case_failure, keys) ==
  IF keys = {}
  THEN 0
  ELSE LET key == CHOOSE k \in keys : TRUE
       IN  Len(test_case_failure[key]) + RemarkCount(test_case_failure, keys \ {key})

\* C23: after any sequence of write_line calls success_count + failure_count
\* is the number of lines appended to the fine-grained report, failure_count
\* is the number of remarks held by the failure map over all its keys, every
\* key of the failure map holds at least one remark, and the success set is
\* non-empty iff success_count > 0.
C23_ContextCounts ==
  /\ ctx.success_count + ctx.failure_count = Len(Written(ctx.report_writer))
  /\ ctx.success_count + ctx.failure_count = Len(recorded)
  /\ ctx.failure_count = RemarkCount(ctx.test_case_failure, DOMAIN ctx.test_case_failure)
  /\ \A key \in DOMAIN ctx.test_case_failure : Len(ctx.test_case_failure[key]) >= 1
  /\ ctx.test_case_success # {} <=> ctx.success_count > 0

\* C23 witness: two failures were recorded under one key.
C23_Witness ==
  /\ ctx.failure_count = 2
  /\ ctx.success_count = 0
  /\ Cardinality(DOMAIN ctx.test_case_failure) = 1
  /\ Len(Written(ctx.report_writer)) = 2

\* C23 witness of the mixed case: a success and a failure were recorded under
\* different keys.
C23_WitnessMixed ==
  /\ ctx.failure_count = 1
  /\ ctx.success_count = 1
  /\ Cardinality(DOMAIN ctx.test_case_failure) = 1
  /\ Cardinality(ctx.test_case_success) = 1
  /\ ctx.test_case_success \cap DOMAIN ctx.test_case_failure = {}

(***************************************************************************)
(* Properties of the keys of the records (specification Spec).             *)
(***************************************************************************)
\* The directory of a fixture without the prefix "<root>/": the segments
\* below the root. The directory of a fixture that is in the root itself
\* does not start with that prefix and stays as it is.
StrippedDirectory(file) ==
  IF Len(file.parent) > Len(RootDir)
  THEN SubSeq(file.parent, Len(RootDir) + 1, Len(file.parent))
  ELSE file.parent

\* Requests m and n are of the same fixture and of test cases of the same id.
SameCase(m, n) ==
  /\ sent[m].file = sent[n].file
  /\ sent[m].test_case_id = sent[n].test_case_id

C24_WitnessResultNodes ==
  /\ Len(recorded) = 2
  /\ SameCase(1, 2)
  /\ sent[2].index = 1
  /\ recorded[1].id = <<"001">>
  /\ recorded[2].id = <<"001", ":", "1">>
  /\ recorded[1].key = recorded[2].key
  /\ recorded[2].key = <<<<"d1">>, <<"t1">>, <<"001">>>>

\* C24 witness of a fixture in the root directory: nothing is stripped, the
\* directory of the key is the root directory in full.
C24_WitnessRoot ==
  /\ Len(recorded) >= 1
  /\ sent[1].file.parent = RootDir
  /\ recorded[1].key[1] = RootDir

====
